---- MODULE Spec2Model ----
(***************************************************************************)
(* vault-sidekick: the event fan-out, the run coordinator of main(), the   *)
(* expiry observer reportExpiryMetrics and the metrics package they call.  *)
(*                                                                         *)
(* One state machine.  The watcher produces VaultEvents and hands each to  *)
(* the three listener channels main registers; main's select loop receives *)
(* from `updates` and starts one goroutine per event; each goroutine takes *)
(* toProcessLock, runs the switch on the event type and either unlocks or  *)
(* calls os.Exit; reportExpiryMetrics drains `expiryUpdates`; nothing      *)
(* drains `metricUpdates`.  Package metrics is modelled call by call: Init, *)
(* the lock-guarded updates, Describe and Collect.  The prometheus registry *)
(* and the sync package are outside the repository and are modelled by     *)
(* their documented contracts.                                             *)
(***************************************************************************)
EXTENDS Integers, Sequences, FiniteSets, Bags, TLC

VARIABLES
    oneShot,          \* options.oneShot
    declared,         \* the resources as configured, in order (never written)
    items,            \* options.resources.items: the backing array toProcess aliases
    toProcess,        \* the slice toProcess (main.go:90), always a prefix of items
    failedResource,   \* main.go:92
    toProcessLock,    \* TRUE while some goroutine holds the mutex
    chans,            \* the three listener channels, by name
    nProduced,        \* number of events the watcher has produced
    mainpc,           \* where main() is
    waiting,          \* bag of events whose goroutine is blocked in toProcessLock.Lock()
    running,          \* bag of events whose goroutine is past Lock() and before Unlock()
    col,              \* metrics.col: "nil" or "set"
    errors,           \* col.errors: reason -> count
    resourceExpiry,   \* col.resourceExpiry: resource id -> expiry
    exitStatus,       \* NotExited while the process runs, else its exit status
    exitPath,         \* which code path ended the process
    sigSent,          \* termination signals the OS has delivered to the process
    sigLost,          \* of those, the ones dropped because nobody was receiving
    coordReceived,    \* production numbers main has received from updates, in order
    observerReceived, \* production numbers reportExpiryMetrics has received, in order
    removedBySuccess, \* resources removed from toProcess by the Success case
    exhausted,        \* resources removed from toProcess by the Failure case
    counters,         \* the other count maps and fields of the collector Init built
    second,           \* the maps of a collector built by a second call of Init
    metricsMutex,     \* collector.metricsMutex of either collector
    initpc,           \* where a call of metrics.Init is
    initCalls,        \* calls of metrics.Init begun
    registered,       \* TRUE once prometheus.MustRegister accepted a collector
    described,        \* what Describe sent to the registry at registration
    servers,          \* goroutines started to serve /metrics
    upd,              \* the callers of the update API: position, method, receiver
    nCalls,           \* update calls begun
    issued,           \* increment calls begun on the first collector, by counter and key
    scr,              \* the calls of Collect: position, output so far
    processErrors,    \* resources for which processResource returned an error
    handledLate,      \* resources for which an event was handled after they left toProcess
    resourcesUpdates, \* MetricsCollector.resourcesUpdates, the channel init drains
    nFed,             \* events sent on resourcesUpdates so far
    resourceEvents,   \* MetricsCollector.resourceEvents: resource id -> payload of its last Success
    errorQueue,       \* number of values in the channel MetricsCollector.errors
    errorCounters,    \* MetricsCollector.errorCounters: reason -> count
    drainer,          \* the goroutine running MetricsCollector.init: position, value in hand
    collect,          \* MetricsCollector.Collect: position, last key visited
    nScrapes,         \* calls of MetricsCollector.Collect begun
    drainMutex        \* MetricsCollector.metricsMutex of *metrics and of the copy init runs on

(* The state of package metrics beyond col, errors and resourceExpiry. *)
aggVars == << counters, second, metricsMutex, initpc, initCalls, registered, described,
              servers, upd, nCalls, issued, scr >>

(* The state of main() and its goroutines. *)
coordVars == << oneShot, declared, items, toProcess, failedResource, toProcessLock, chans,
                nProduced, mainpc, waiting, running, sigSent, sigLost, coordReceived,
                observerReceived, removedBySuccess, exhausted, processErrors,
                handledLate >>

(* The queue-draining MetricsCollector of metrics.go. *)
drainVars == << resourcesUpdates, nFed, resourceEvents, errorQueue, errorCounters, drainer,
                collect, nScrapes, drainMutex >>

(* What only the goroutine of main.go:102-135 writes. *)
taskVars == << processErrors, handledLate >>

vars == << oneShot, declared, items, toProcess, failedResource, toProcessLock, chans,
           nProduced, mainpc, waiting, running, col, errors, resourceExpiry,
           exitStatus, exitPath, sigSent, sigLost, coordReceived, observerReceived,
           removedBySuccess, exhausted, counters, second, metricsMutex, initpc,
           initCalls, registered, described, servers, upd, nCalls, issued, scr,
           processErrors, handledLate, resourcesUpdates, nFed, resourceEvents,
           errorQueue, errorCounters, drainer, collect, nScrapes, drainMutex >>

---------------------------------------------------------------------------
(* Bounds of the model. *)

MaxEvents == 3
MaxRetryCount == 3
MaxSignals == 1
MaxInFlight == 2
MaxFanEvents == 12
MaxInits == 2
MaxCalls == 2
MaxObsEvents == 5
MaxDrainEvents == 14
MaxScrapes == 2

(* make(chan VaultEvent, 10), main.go:65, 68, 75 *)
QueueCap == 10

---------------------------------------------------------------------------
(* The declared resources.  Resource 1 is a "pki" resource with a retry    *)
(* budget of 2, resource 2 a "secret" resource with MaxRetries = 0.        *)

Resources == {1, 2}

ResourceKind(r) == IF r = 1 THEN "pki" ELSE "secret"

ResourceMaxRetries(r) == IF r = 1 THEN 2 ELSE 0

ItemLists == {<<>>, <<1>>, <<2>>, <<1, 2>>}

EventTypeSuccess == "success"
EventTypeFailure == "failure"

(* The shapes of Secret["expiration"]: no such key, a value that is not a  *)
(* json.Number, a json.Number that is no int64, a json.Number that is one. *)
Payloads == {"absent", "string", "float", "int"}

(* Retries is the value the goroutine reads through evt.Resource at        *)
(* main.go:118; the watcher may have set it to anything by then.           *)
SuccessEvents(r, payloads) ==
    {[Resource |-> r, Type |-> EventTypeSuccess, Retries |-> 0, Secret |-> p] : p \in payloads}

FailureEvents(r) ==
    {[Resource |-> r, Type |-> EventTypeFailure, Retries |-> n, Secret |-> "absent"] :
        n \in 1..MaxRetryCount}

Range(s) == {s[i] : i \in 1..Len(s)}

(* What the watcher can produce: events of the resources main watches.     *)
WatchedEvents(payloads) ==
    UNION {SuccessEvents(r, payloads) \cup FailureEvents(r) : r \in Range(declared)}

NotExited == -1

Running == exitStatus = NotExited

Listeners == <<"updates", "expiryUpdates", "metricUpdates">>

updates == chans["updates"]
expiryUpdates == chans["expiryUpdates"]
metricUpdates == chans["metricUpdates"]

EmptyMap == [x \in {} |-> 0]

---------------------------------------------------------------------------
(* The collector of package metrics (metrics/collector.go:10-49).  A metric *)
(* family is named after the field that holds its values.                  *)

(* The families in the order Collect emits them, collector.go:149-197. *)
CollectFamilies ==
    << "resourceExpiry", "resourceTotals", "resourceSuccesses", "resourceErrors",
       "resourceProcessTotals", "resourceProcessSuccesses", "resourceProcessErrors",
       "tokenTotals", "tokenSuccesses", "tokenErrors", "errors" >>

(* The families whose descriptor Describe sends, in order, collector.go:126-142. *)
DescribeFamilies ==
    << "resourceExpiry", "resourceTotals", "resourceSuccesses", "resourceErrors",
       "tokenTotals", "tokenSuccesses", "tokenErrors", "errors" >>

(* The descriptors Init constructs, metrics.go:24-48. *)
InitDescriptors ==
    {"resourceExpiry", "resourceTotals", "resourceSuccesses", "resourceErrors", "errors"}

(* The maps Init makes, metrics.go:52-58. *)
InitMaps ==
    {"resourceExpiry", "resourceTotals", "resourceSuccesses", "resourceErrors", "errors"}

(* The int64 fields, collector.go:41-43: no map, one value each. *)
TokenFamilies == {"tokenTotals", "tokenSuccesses", "tokenErrors"}

(* The *prometheus.Desc field of a family: the zero value nil unless Init  *)
(* set it.                                                                 *)
Descriptor(fam) == IF fam \in InitDescriptors THEN fam ELSE "nil"

(* The families kept in the variable counters. *)
CounterFields == Range(CollectFamilies) \ {"resourceExpiry", "errors"}

(* A token field is shown as a map with the one key 0. *)
NewCounters ==
    [f \in CounterFields |-> IF f \in TokenFamilies THEN [x \in {0} |-> 0] ELSE EmptyMap]

(* col = &collector{...}, metrics.go:23-59. *)
NewCollector == [errors |-> EmptyMap, resourceExpiry |-> EmptyMap, counters |-> NewCounters]

(* A mutex nobody holds. *)
FreeMutex == [w |-> FALSE, r |-> {}]

(* The goroutines that call the update API and the scrapes of the exporter. *)
Callers == {"a", "b"}
Scrapers == {"x", "y"}

IdleCaller == [pc |-> "idle", op |-> "none", target |-> "nil", reg |-> 0]
IdleScraper == [pc |-> "idle", idx |-> 0, out |-> <<>>, snap |-> NewCollector]

(* The goroutine of MetricsCollector.init waiting in its select, and      *)
(* MetricsCollector.Collect not running.                                   *)
IdleDrainer == [pc |-> "select", kind |-> "none", id |-> 0, payload |-> "absent"]
IdleCollect == [pc |-> "idle", last |-> 0]

(* Describe as the registry receives it: one descriptor per family sent. *)
DescribeSends == [i \in 1..Len(DescribeFamilies) |-> Descriptor(DescribeFamilies[i])]

---------------------------------------------------------------------------
(* Init: the process at main.go:51, options parsed. *)

Init ==
    /\ oneShot \in BOOLEAN
    /\ declared \in ItemLists
    /\ items = declared
    /\ toProcess = items
    /\ failedResource = FALSE
    /\ toProcessLock = FALSE
    /\ chans = [c \in Range(Listeners) |-> <<>>]
    /\ nProduced = 0
    /\ mainpc = "init"
    /\ waiting = EmptyBag
    /\ running = EmptyBag
    /\ col = "nil"
    /\ errors = EmptyMap
    /\ resourceExpiry = EmptyMap
    /\ exitStatus = NotExited
    /\ exitPath = "none"
    /\ sigSent = 0
    /\ sigLost = 0
    /\ coordReceived = <<>>
    /\ observerReceived = <<>>
    /\ removedBySuccess = {}
    /\ exhausted = {}
    /\ counters = NewCounters
    /\ second = NewCollector
    /\ metricsMutex = [t \in {"set", "replaced"} |-> FreeMutex]
    /\ initpc = "idle"
    /\ initCalls = 0
    /\ registered = FALSE
    /\ described = <<>>
    /\ servers = 0
    /\ upd = [c \in Callers |-> IdleCaller]
    /\ nCalls = 0
    /\ issued = EmptyMap
    /\ scr = [s \in Scrapers |-> IdleScraper]
    /\ processErrors = {}
    /\ handledLate = {}
    /\ resourcesUpdates = <<>>
    /\ nFed = 0
    /\ resourceEvents = EmptyMap
    /\ errorQueue = 0
    /\ errorCounters = EmptyMap
    /\ drainer = IdleDrainer
    /\ collect = IdleCollect
    /\ nScrapes = 0
    /\ drainMutex = [l \in {"orig", "copy"} |-> FreeMutex]

---------------------------------------------------------------------------
(* os.Exit and a goroutine's unrecovered panic both end the process; every *)
(* action below is guarded by Running.                                     *)

Exit(status, path) ==
    /\ exitStatus' = status
    /\ exitPath' = path

NoExit == UNCHANGED << exitStatus, exitPath >>

---------------------------------------------------------------------------
(* main(), lines 51-96. *)

(* Lines 51-88: metrics.Init unless one-shot, the three listeners, the     *)
(* observer goroutine, signal.Notify, vault.Watch of every resource.       *)
(* Telemetry for every run. *)
MetricsEnabledAlways == TRUE

(* Line 52: metrics.Init is called unless the run is one-shot. *)
MetricsEnabled == ~oneShot

(* metrics.Init here runs from its first line to its last: the collector   *)
(* is built and assigned to col, registered (the registry calls Describe), *)
(* and the goroutine serving /metrics is started.                          *)
MainSetup ==
    /\ Running
    /\ UNCHANGED drainVars
    /\ mainpc = "init"
    /\ col' = IF MetricsEnabled THEN "set" ELSE "nil"
    /\ initCalls' = IF MetricsEnabled THEN initCalls + 1 ELSE initCalls
    /\ registered' = MetricsEnabled
    /\ described' = IF MetricsEnabled THEN DescribeSends ELSE described
    /\ servers' = IF MetricsEnabled THEN servers + 1 ELSE servers
    /\ mainpc' = "watching"
    /\ NoExit
    /\ UNCHANGED << oneShot, declared, items, toProcess, failedResource, toProcessLock, chans,
                    nProduced, waiting, running, errors, resourceExpiry,
                    sigSent, sigLost, coordReceived, observerReceived,
                    removedBySuccess, exhausted >>
    /\ UNCHANGED << counters, second, metricsMutex, initpc, upd, nCalls, issued, scr >>
    /\ UNCHANGED taskVars

(* The emptiness test written so that it never holds. *)
NothingToRetrieveNever == oneShot /\ Len(toProcess) < 0

(* Lines 90-96: nothing to retrieve in one-shot mode. *)
NothingToRetrieve == oneShot /\ Len(toProcess) = 0

MainCheckEmpty ==
    /\ Running
    /\ UNCHANGED drainVars
    /\ UNCHANGED aggVars
    /\ UNCHANGED taskVars
    /\ mainpc = "watching"
    /\ IF NothingToRetrieve
         THEN Exit(0, "empty") /\ mainpc' = "exited"
         ELSE NoExit /\ mainpc' = "select"
    /\ UNCHANGED << oneShot, declared, items, toProcess, failedResource, toProcessLock, chans,
                    nProduced, waiting, running, col, errors,
                    resourceExpiry, sigSent, sigLost, coordReceived, observerReceived,
                    removedBySuccess, exhausted >>

(* Lines 100-135: case evt := <-updates, then go func(r VaultEvent)        *)
(* {...}(evt); the goroutine starts blocked in toProcessLock.Lock().       *)
(* MaxInFlight bounds the goroutines alive at once.                        *)
MainRecv ==
    /\ Running
    /\ UNCHANGED drainVars
    /\ UNCHANGED aggVars
    /\ UNCHANGED taskVars
    /\ mainpc = "select"
    /\ updates # <<>>
    /\ BagCardinality(waiting) + BagCardinality(running) < MaxInFlight
    /\ waiting' = waiting (+) SetToBag({Head(updates).evt})
    /\ coordReceived' = Append(coordReceived, Head(updates).seq)
    /\ chans' = [chans EXCEPT !["updates"] = Tail(@)]
    /\ NoExit
    /\ UNCHANGED << oneShot, declared, items, toProcess, failedResource, toProcessLock,
                    nProduced, mainpc, running, col, errors, resourceExpiry, sigSent,
                    sigLost, observerReceived, removedBySuccess, exhausted >>

---------------------------------------------------------------------------
(* Termination signals.  signalChannel is unbuffered (main.go:79) and      *)
(* signal.Notify never blocks: a signal is handed to main only when main   *)
(* is waiting in its select, otherwise it is dropped.                      *)

MainAtSelect == mainpc = "select"

Signal ==
    /\ Running
    /\ UNCHANGED drainVars
    /\ UNCHANGED aggVars
    /\ UNCHANGED taskVars
    /\ mainpc # "init"
    /\ sigSent < MaxSignals
    /\ sigSent' = sigSent + 1
    /\ IF MainAtSelect
         THEN mainpc' = "signalled" /\ sigLost' = sigLost
         ELSE mainpc' = mainpc /\ sigLost' = sigLost + 1
    /\ NoExit
    /\ UNCHANGED << oneShot, declared, items, toProcess, failedResource, toProcessLock, chans,
                    nProduced, waiting, running, col, errors,
                    resourceExpiry, coordReceived, observerReceived, removedBySuccess,
                    exhausted >>

(* Lines 136-138. *)
MainSignalExit ==
    /\ Running
    /\ UNCHANGED drainVars
    /\ UNCHANGED aggVars
    /\ UNCHANGED taskVars
    /\ mainpc = "signalled"
    /\ Exit(0, "signal")
    /\ mainpc' = "exited"
    /\ UNCHANGED << oneShot, declared, items, toProcess, failedResource, toProcessLock, chans,
                    nProduced, waiting, running, col, errors,
                    resourceExpiry, sigSent, sigLost, coordReceived, observerReceived,
                    removedBySuccess, exhausted >>

---------------------------------------------------------------------------
(* The watcher and the fan-out to the listeners (vault.AddListener).       *)
(* The watcher produces an event only for a resource main passed to        *)
(* vault.Watch; the fan-out puts a copy on every listener channel, and     *)
(* blocks the watcher while some channel is full.                          *)

(* ch <- event: the channel after the send. *)
Enqueue(q, entry) == Append(q, entry)

(* A send that never blocks. *)
CanSendAlways(q) == Len(q) >= 0

CanSend(q) == Len(q) < QueueCap

(* A fan-out that leaves out the listener registered last. *)
FanOutSkipsLast(chs, entry) ==
    [c \in DOMAIN chs |-> IF c \in {Listeners[i] : i \in 1..(Len(Listeners) - 1)}
                            THEN Enqueue(chs[c], entry)
                            ELSE chs[c]]

(* The channels after one event went to every listener. *)
FanOut(chs, entry) ==
    [c \in DOMAIN chs |-> IF c \in Range(Listeners) THEN Enqueue(chs[c], entry) ELSE chs[c]]

Produce(e) ==
    /\ Running
    /\ UNCHANGED drainVars
    /\ UNCHANGED aggVars
    /\ UNCHANGED taskVars
    /\ mainpc # "init"
    /\ \A c \in Range(Listeners) : CanSend(chans[c])
    /\ nProduced' = nProduced + 1
    /\ chans' = FanOut(chans, [seq |-> nProduced + 1, evt |-> e])
    /\ NoExit
    /\ UNCHANGED << oneShot, declared, items, toProcess, failedResource, toProcessLock,
                    mainpc, waiting, running, col, errors, resourceExpiry,
                    sigSent, sigLost, coordReceived, observerReceived,
                    removedBySuccess, exhausted >>

---------------------------------------------------------------------------
(* The goroutine of main.go:102-135. *)

(* A mutex that can be taken whoever holds it. *)
LockFreeAlways == TRUE

(* toProcessLock.Lock() returns when nobody holds the mutex. *)
LockFree == toProcessLock = FALSE

(* Line 103. *)
TaskLock(e) ==
    /\ Running
    /\ UNCHANGED drainVars
    /\ UNCHANGED aggVars
    /\ UNCHANGED taskVars
    /\ BagIn(e, waiting)
    /\ LockFree
    /\ toProcessLock' = TRUE
    /\ waiting' = waiting (-) SetToBag({e})
    /\ running' = running (+) SetToBag({e})
    /\ NoExit
    /\ UNCHANGED << oneShot, declared, items, toProcess, failedResource, chans, nProduced, mainpc, col, errors, resourceExpiry, sigSent,
                    sigLost, coordReceived, observerReceived, removedBySuccess,
                    exhausted >>

(* The budget compared with <= where the code has <. *)
BudgetExhaustedAtLimit(e) ==
    /\ ResourceMaxRetries(e.Resource) > 0
    /\ ResourceMaxRetries(e.Resource) <= e.Retries

(* Line 118: the retry budget is spent. *)
BudgetExhausted(e) ==
    /\ ResourceMaxRetries(e.Resource) > 0
    /\ ResourceMaxRetries(e.Resource) < e.Retries

(* A removal that shortens the slice and moves nothing. *)
RemoveAtDropsLast(arr, len, i) == arr

(* toProcess = append(toProcess[:i], toProcess[i+1:]...), i counted from   *)
(* 0, on the array arr with the slice length len: the elements after i     *)
(* move one place down in the shared array and the length drops by one.    *)
RemoveAt(arr, len, i) ==
    [k \in 1..Len(arr) |-> IF k >= i + 1 /\ k <= len - 1 THEN arr[k + 1] ELSE arr[k]]

(* for i, r := range toProcess { if evt.Resource == r { ... } }            *)
(* (lines 111-115 and 119-124).  The range runs over the n elements the    *)
(* slice had when the loop began and reads them from the array as it is    *)
(* now; a match beyond the current length makes toProcess[i+1:] panic.     *)
RECURSIVE RangeRemove(_, _, _, _, _)
RangeRemove(st, i, n, res, markFailed) ==
    IF i >= n \/ st.panic
      THEN st
      ELSE IF st.arr[i + 1] = res
             THEN IF i + 1 > st.len
                    THEN [st EXCEPT !.panic = TRUE]
                    ELSE RangeRemove([arr    |-> RemoveAt(st.arr, st.len, i),
                                      len    |-> st.len - 1,
                                      failed |-> st.failed \/ markFailed,
                                      panic  |-> FALSE],
                                     i + 1, n, res, markFailed)
             ELSE RangeRemove(st, i + 1, n, res, markFailed)

(* Line 107: processResource is called for a Success event only; it       *)
(* returns nil or an error.                                                *)
ProcessOutcomes(e) == IF e.Type = EventTypeSuccess THEN {"ok", "error"} ELSE {"none"}

(* A removal that needs processResource to have returned nil. *)
RemovesOnSuccessUnlessError(outcome) == oneShot /\ outcome # "error"

(* Lines 107-110: the error of processResource is logged; the removal of   *)
(* line 110 depends on the mode alone.                                     *)
RemovesOnSuccess(outcome) == oneShot

(* Lines 105-126: the switch on r.Type. *)
CoordinatorSwitch(e, st, outcome) ==
    IF e.Type = EventTypeSuccess
      THEN IF RemovesOnSuccess(outcome)
             THEN RangeRemove(st, 0, st.len, e.Resource, FALSE)
             ELSE st
      ELSE IF BudgetExhausted(e)
             THEN RangeRemove(st, 0, st.len, e.Resource, TRUE)
             ELSE st

(* A test that holds with one resource left. *)
NoResourcesLeftButOne(len) == len <= 1

(* Line 127. *)
NoResourcesLeft(len) == len = 0

(* Lines 129-133. *)
DrainedStatus(failed) == IF failed THEN 1 ELSE 0

(* Lines 105-135, from the switch to Unlock or os.Exit.  processResource   *)
(* (line 107) runs first, with the lock held; its error is only logged.    *)
(* os.Exit runs no deferred call: the lock stays held.  TaskRun is the     *)
(* goroutine with the given outcome of processResource.                    *)
TaskRun(e, outcome) ==
    /\ Running
    /\ UNCHANGED drainVars
    /\ UNCHANGED aggVars
    /\ BagIn(e, running)
    /\ processErrors' = IF outcome = "error"
                          THEN processErrors \cup {e.Resource}
                          ELSE processErrors
    /\ handledLate' = IF e.Resource \in Range(toProcess)
                         THEN handledLate
                         ELSE handledLate \cup {e.Resource}
    /\ LET st0 == [arr |-> items, len |-> Len(toProcess),
                   failed |-> failedResource, panic |-> FALSE]
           st  == CoordinatorSwitch(e, st0, outcome)
           gone == st.len < st0.len
       IN  /\ items' = st.arr
           /\ toProcess' = SubSeq(st.arr, 1, st.len)
           /\ failedResource' = st.failed
           /\ removedBySuccess' = IF gone /\ e.Type = EventTypeSuccess
                                    THEN removedBySuccess \cup {e.Resource}
                                    ELSE removedBySuccess
           /\ exhausted' = IF gone /\ e.Type = EventTypeFailure
                             THEN exhausted \cup {e.Resource}
                             ELSE exhausted
           /\ IF st.panic
                THEN /\ Exit(2, "panic in goroutine")
                     /\ UNCHANGED << toProcessLock, running >>
                ELSE IF NoResourcesLeft(st.len)
                       THEN /\ Exit(DrainedStatus(st.failed), "drained")
                            /\ UNCHANGED << toProcessLock, running >>
                       ELSE /\ NoExit
                            /\ toProcessLock' = FALSE
                            /\ running' = running (-) SetToBag({e})
    /\ UNCHANGED << oneShot, declared, chans, nProduced, mainpc, waiting, col,
                    errors, resourceExpiry, sigSent, sigLost, coordReceived,
                    observerReceived >>

TaskBody(e) == \E outcome \in ProcessOutcomes(e) : TaskRun(e, outcome)

---------------------------------------------------------------------------
(* The metrics package as the observer uses it (metrics/metrics.go:70-88,  *)
(* metrics/collector.go:51-55, 120-124).                                   *)

(* A count that goes down. *)
Decremented(v) == v - 1

(* v++ *)
Incremented(v) == v + 1

(* m[k]++: a key the map does not have reads as 0. *)
MapIncr(m, k) ==
    [x \in DOMAIN m \cup {k} |-> IF x = k
                                   THEN Incremented(IF k \in DOMAIN m THEN m[k] ELSE 0)
                                   ELSE m[x]]

MapSet(m, k, v) == [x \in DOMAIN m \cup {k} |-> IF x = k THEN v ELSE m[x]]

(* The expiry the gauge stores for an "int" payload. *)
ExpirationOf(e) == 1

(* Lines 148-168 of reportExpiryMetrics: the metrics call an event leads   *)
(* to, if any.                                                             *)
ExpiryMetricCall(e) ==
    IF e.Type = EventTypeFailure
      THEN [op |-> "none"]
      ELSE IF ResourceKind(e.Resource) # "pki"
             THEN [op |-> "none"]
             ELSE IF e.Secret \in {"absent", "string"}
                    THEN [op |-> "Error", reason |-> "no_expiration_in_pki_resource"]
                    ELSE IF e.Secret = "float"
                           THEN [op |-> "Error", reason |-> "expiration_not_int64"]
                           ELSE [op |-> "ResourceExpiry"]

(* col.Error / col.ResourceExpiry on a nil *collector dereference nil at   *)
(* c.metricsMutex.Lock(): the goroutine panics and the process dies with   *)
(* status 2.                                                               *)
NilCollector == col = "nil"

(* reportExpiryMetrics, main.go:144-171: one received event. *)
ObserverStep ==
    /\ Running
    /\ UNCHANGED drainVars
    /\ UNCHANGED aggVars
    /\ UNCHANGED taskVars
    /\ mainpc # "init"
    /\ expiryUpdates # <<>>
    /\ LET event == Head(expiryUpdates).evt
           call  == ExpiryMetricCall(event)
       IN  /\ chans' = [chans EXCEPT !["expiryUpdates"] = Tail(@)]
           /\ observerReceived' = Append(observerReceived, Head(expiryUpdates).seq)
           /\ IF call.op = "none"
                THEN NoExit /\ UNCHANGED << errors, resourceExpiry >>
                ELSE IF NilCollector
                       THEN Exit(2, "panic in reportExpiryMetrics")
                            /\ UNCHANGED << errors, resourceExpiry >>
                       ELSE /\ NoExit
                            /\ errors' = IF call.op = "Error"
                                           THEN MapIncr(errors, call.reason)
                                           ELSE errors
                            /\ resourceExpiry' =
                                 IF call.op = "ResourceExpiry"
                                   THEN MapSet(resourceExpiry, event.Resource,
                                               ExpirationOf(event))
                                   ELSE resourceExpiry
    /\ UNCHANGED << oneShot, declared, items, toProcess, failedResource, toProcessLock, nProduced, mainpc, waiting, running, col, sigSent, sigLost,
                    coordReceived, removedBySuccess, exhausted >>

---------------------------------------------------------------------------
(* Package metrics, call by call.                                          *)

(* The maps of the collector a call works on: "set" is the collector the   *)
(* first Init built, "replaced" the one a second Init put in col.          *)
AggState(t) ==
    IF t = "replaced"
      THEN second
      ELSE [errors |-> errors, resourceExpiry |-> resourceExpiry, counters |-> counters]

Field(st, fam) ==
    IF fam = "errors" THEN st.errors
    ELSE IF fam = "resourceExpiry" THEN st.resourceExpiry
    ELSE st.counters[fam]

WithField(st, fam, m) ==
    IF fam = "errors" THEN [st EXCEPT !.errors = m]
    ELSE IF fam = "resourceExpiry" THEN [st EXCEPT !.resourceExpiry = m]
    ELSE [st EXCEPT !.counters[fam] = m]

(* The update methods, collector.go:51-124, each with the field it writes. *)
(* One resource id, one stage and one reason stand for all keys; the gauge *)
(* takes two expiry times.                                                 *)
IncrementOps ==
    {[m |-> "ResourceTotal",          fam |-> "resourceTotals",           key |-> 1, val |-> 0],
     [m |-> "ResourceSuccess",        fam |-> "resourceSuccesses",        key |-> 1, val |-> 0],
     [m |-> "ResourceError",          fam |-> "resourceErrors",           key |-> 1, val |-> 0],
     [m |-> "ResourceProcessTotal",   fam |-> "resourceProcessTotals",    key |-> 1, val |-> 0],
     [m |-> "ResourceProcessSuccess", fam |-> "resourceProcessSuccesses", key |-> 1, val |-> 0],
     [m |-> "ResourceProcessError",   fam |-> "resourceProcessErrors",    key |-> 1, val |-> 0],
     [m |-> "TokenTotal",             fam |-> "tokenTotals",              key |-> 0, val |-> 0],
     [m |-> "TokenSuccess",           fam |-> "tokenSuccesses",           key |-> 0, val |-> 0],
     [m |-> "TokenError",             fam |-> "tokenErrors",              key |-> 0, val |-> 0],
     [m |-> "Error",                  fam |-> "errors",                   key |-> 1, val |-> 0]}

GaugeOps ==
    {[m |-> "ResourceExpiry", fam |-> "resourceExpiry", key |-> 1, val |-> v] : v \in {1, 2}}

UpdateOps == IncrementOps \cup GaugeOps

(* The statement between Lock and Unlock, c.field[key]++ or                *)
(* c.resourceExpiry[key] = expiry, in two halves: the value to store is    *)
(* worked out from the collector as it is, then stored.                    *)
ValueToStore(st, op) ==
    IF op \in GaugeOps
      THEN op.val
      ELSE Incremented(IF op.key \in DOMAIN Field(st, op.fam)
                         THEN Field(st, op.fam)[op.key]
                         ELSE 0)

ApplyUpdate(st, op, v) == WithField(st, op.fam, MapSet(Field(st, op.fam), op.key, v))

(* collector.go:77-80, 86-89, 95-98: Init made no per-stage map, so the    *)
(* field is a nil map; reading it is allowed, the assignment               *)
(* c.resourceProcessTotals[resourceID] = make(...) panics.                 *)
NilMapWrite(op) == op.fam \notin (InitMaps \cup TokenFamilies)

(* A Lock that waits for nobody. *)
CanLockAlways(mu) == mu = mu

(* A Lock that waits for the writer only. *)
CanLockIgnoringReaders(mu) == ~mu.w

(* sync.RWMutex: Lock waits for the writer and all readers to leave. *)
CanLock(mu) == ~mu.w /\ mu.r = {}

(* An RLock that waits for nobody. *)
CanRLockAlways(mu) == mu = mu

(* sync.RWMutex: RLock waits for the writer to leave. *)
CanRLock(mu) == ~mu.w

(* A method call on the nil *collector returns at once. *)
NilReceiverReturns == "return"

(* metrics.go:70-88 with col = nil: the method is entered with c = nil and *)
(* c.metricsMutex.Lock() dereferences it: a run-time panic.                *)
NilReceiverCall == "panic"

(* metrics.Init up to line 59: collectorMutex taken, a new collector built *)
(* and assigned to col.                                                    *)
InitAssign ==
    /\ Running
    /\ UNCHANGED drainVars
    /\ initpc = "idle"
    /\ initCalls < MaxInits
    /\ initCalls' = initCalls + 1
    /\ initpc' = "assigned"
    /\ IF col = "nil"
         THEN /\ col' = "set"
              /\ errors' = NewCollector.errors
              /\ resourceExpiry' = NewCollector.resourceExpiry
              /\ counters' = NewCollector.counters
              /\ second' = second
         ELSE /\ col' = "replaced"
              /\ second' = NewCollector
              /\ UNCHANGED << errors, resourceExpiry, counters >>
    /\ NoExit
    /\ UNCHANGED << metricsMutex, registered, described, servers, upd, nCalls, issued, scr >>
    /\ UNCHANGED coordVars

(* metrics.Init, lines 61-66: prometheus.MustRegister(col), which calls    *)
(* Describe and panics when a collector with these descriptors is          *)
(* registered already; then the goroutine serving /metrics.                *)
InitRegister ==
    /\ Running
    /\ UNCHANGED drainVars
    /\ initpc = "assigned"
    /\ IF registered
         THEN /\ Exit(2, "panic in MustRegister")
              /\ UNCHANGED << initpc, registered, described, servers >>
         ELSE /\ NoExit
              /\ initpc' = "idle"
              /\ registered' = TRUE
              /\ described' = DescribeSends
              /\ servers' = servers + 1
    /\ UNCHANGED << col, errors, resourceExpiry, counters, second, metricsMutex, initCalls,
                    upd, nCalls, issued, scr >>
    /\ UNCHANGED coordVars

(* A goroutine calls an update: the wrapper of metrics.go:70-88 reads col. *)
UpdCall(c, op) ==
    /\ Running
    /\ UNCHANGED drainVars
    /\ upd[c].pc = "idle"
    /\ nCalls < MaxCalls
    /\ nCalls' = nCalls + 1
    /\ upd' = [upd EXCEPT ![c] = [pc |-> "called", op |-> op, target |-> col, reg |-> 0]]
    /\ issued' = IF col = "set" /\ op \in IncrementOps
                   THEN MapIncr(issued, << op.fam, op.key >>)
                   ELSE issued
    /\ NoExit
    /\ UNCHANGED << col, errors, resourceExpiry, counters, second, metricsMutex, initpc,
                    initCalls, registered, described, servers, scr >>
    /\ UNCHANGED coordVars

(* c.metricsMutex.Lock(), first line of every update method. *)
UpdLock(c) ==
    /\ Running
    /\ UNCHANGED drainVars
    /\ upd[c].pc = "called"
    /\ IF upd[c].target = "nil"
         THEN IF NilReceiverCall = "panic"
                THEN /\ Exit(2, "panic in update")
                     /\ upd' = [upd EXCEPT ![c].pc = "panicked"]
                     /\ UNCHANGED metricsMutex
                ELSE /\ NoExit
                     /\ upd' = [upd EXCEPT ![c] = IdleCaller]
                     /\ UNCHANGED metricsMutex
         ELSE /\ CanLock(metricsMutex[upd[c].target])
              /\ metricsMutex' = [metricsMutex EXCEPT ![upd[c].target].w = TRUE]
              /\ upd' = [upd EXCEPT ![c].pc = "locked"]
              /\ NoExit
    /\ UNCHANGED << col, errors, resourceExpiry, counters, second, initpc, initCalls,
                    registered, described, servers, nCalls, issued, scr >>
    /\ UNCHANGED coordVars

(* The first half of the update: the value to store. *)
UpdRead(c) ==
    /\ Running
    /\ UNCHANGED drainVars
    /\ upd[c].pc = "locked"
    /\ upd' = [upd EXCEPT ![c].pc = "read",
                          ![c].reg = ValueToStore(AggState(upd[c].target), upd[c].op)]
    /\ NoExit
    /\ UNCHANGED << col, errors, resourceExpiry, counters, second, metricsMutex, initpc,
                    initCalls, registered, described, servers, nCalls, issued, scr >>
    /\ UNCHANGED coordVars

(* The second half and c.metricsMutex.Unlock().  A panic leaves the lock   *)
(* held.                                                                   *)
UpdApply(c) ==
    /\ Running
    /\ UNCHANGED drainVars
    /\ upd[c].pc = "read"
    /\ IF NilMapWrite(upd[c].op)
         THEN /\ Exit(2, "panic in update")
              /\ upd' = [upd EXCEPT ![c].pc = "panicked"]
              /\ UNCHANGED << errors, resourceExpiry, counters, second, metricsMutex >>
         ELSE /\ NoExit
              /\ upd' = [upd EXCEPT ![c] = IdleCaller]
              /\ metricsMutex' = [metricsMutex EXCEPT ![upd[c].target].w = FALSE]
              /\ LET new == ApplyUpdate(AggState(upd[c].target), upd[c].op, upd[c].reg)
                 IN  IF upd[c].target = "replaced"
                       THEN /\ second' = new
                            /\ UNCHANGED << errors, resourceExpiry, counters >>
                       ELSE /\ errors' = new.errors
                            /\ resourceExpiry' = new.resourceExpiry
                            /\ counters' = new.counters
                            /\ second' = second
    /\ UNCHANGED << col, initpc, initCalls, registered, described, servers, nCalls, issued,
                    scr >>
    /\ UNCHANGED coordVars

(* Collect, collector.go:144-198, called by the registry on the collector  *)
(* it registered.  The families from position i on that have a value to    *)
(* send.                                                                   *)
PendingFamilies(st, i) ==
    {j \in i..Len(CollectFamilies) : DOMAIN Field(st, CollectFamilies[j]) # {}}

(* Lines 145-146: RLock, released when Collect returns. *)
CollectRLock(s) ==
    /\ Running
    /\ UNCHANGED drainVars
    /\ registered
    /\ scr[s].pc = "idle"
    /\ CanRLock(metricsMutex["set"])
    /\ metricsMutex' = [metricsMutex EXCEPT !["set"].r = @ \cup {s}]
    /\ scr' = [scr EXCEPT ![s] = [pc |-> "collecting", idx |-> 1, out |-> <<>>,
                                  snap |-> AggState("set")]]
    /\ NoExit
    /\ UNCHANGED << col, errors, resourceExpiry, counters, second, initpc, initCalls,
                    registered, described, servers, upd, nCalls, issued >>
    /\ UNCHANGED coordVars

(* ch <- prometheus.MustNewConstMetric(...): the values of the next family *)
(* that has any, read now and handed to the exporter, which takes them     *)
(* when it is ready to.  The gauge is sent as the stored expiry.           *)
CollectSend(s) ==
    /\ Running
    /\ UNCHANGED drainVars
    /\ scr[s].pc = "collecting"
    /\ PendingFamilies(AggState("set"), scr[s].idx) # {}
    /\ LET j   == CHOOSE k \in PendingFamilies(AggState("set"), scr[s].idx) :
                     \A l \in PendingFamilies(AggState("set"), scr[s].idx) : k <= l
           fam == CollectFamilies[j]
       IN  scr' = [scr EXCEPT ![s].idx = j + 1,
                              ![s].out = Append(@, [fam  |-> fam,
                                                    desc |-> Descriptor(fam),
                                                    vals |-> Field(AggState("set"), fam)])]
    /\ NoExit
    /\ UNCHANGED << col, errors, resourceExpiry, counters, second, metricsMutex, initpc,
                    initCalls, registered, described, servers, upd, nCalls, issued >>
    /\ UNCHANGED coordVars

(* Collect returns: the deferred RUnlock. *)
CollectReturn(s) ==
    /\ Running
    /\ UNCHANGED drainVars
    /\ scr[s].pc = "collecting"
    /\ PendingFamilies(AggState("set"), scr[s].idx) = {}
    /\ scr' = [scr EXCEPT ![s].pc = "done"]
    /\ metricsMutex' = [metricsMutex EXCEPT !["set"].r = @ \ {s}]
    /\ NoExit
    /\ UNCHANGED << col, errors, resourceExpiry, counters, second, initpc, initCalls,
                    registered, described, servers, upd, nCalls, issued >>
    /\ UNCHANGED coordVars

---------------------------------------------------------------------------

Next ==
    \/ MainSetup
    \/ MainCheckEmpty
    \/ MainRecv
    \/ Signal
    \/ MainSignalExit
    \/ \E e \in WatchedEvents({"int"}) : nProduced < MaxEvents /\ Produce(e)
    \/ \E e \in BagToSet(waiting) : TaskLock(e)
    \/ \E e \in BagToSet(running) : TaskBody(e)
    \/ ObserverStep

Spec == Init /\ [][Next]_vars

---------------------------------------------------------------------------
(* The fan-out under load: a continuous run that watches resource 2, whose *)
(* fetch keeps failing.  The k-th event carries the retry count            *)
(* 1 + k % MaxRetryCount, so that neighbouring events differ.              *)

FanEvent(k) ==
    [Resource |-> 2, Type |-> EventTypeFailure, Retries |-> 1 + (k % MaxRetryCount),
     Secret |-> "absent"]

FanInit == Init /\ ~oneShot /\ declared = <<2>>

FanProduce == nProduced < MaxFanEvents /\ Produce(FanEvent(nProduced + 1))

FanNext ==
    \/ MainSetup
    \/ MainCheckEmpty
    \/ MainRecv
    \/ FanProduce
    \/ \E e \in BagToSet(waiting) : TaskLock(e)
    \/ \E e \in BagToSet(running) : TaskBody(e)
    \/ ObserverStep

FanSpec == FanInit /\ [][FanNext]_vars

---------------------------------------------------------------------------
(* Package metrics under its callers: Init called up to MaxInits times, two *)
(* goroutines calling updates, two scrapes.  AggOps has one method of each *)
(* kind: a counter map, the error map, a token field, a per-stage map, the *)
(* gauge.                                                                  *)

AggOps == {op \in UpdateOps : op.m \in {"ResourceTotal", "Error", "TokenTotal",
                                        "ResourceProcessTotal", "ResourceExpiry"}}

AggInit == Init /\ ~oneShot /\ declared = <<>>

AggNext ==
    \/ InitAssign
    \/ InitRegister
    \/ \E c \in Callers, op \in AggOps : UpdCall(c, op)
    \/ \E c \in Callers : UpdLock(c)
    \/ \E c \in Callers : UpdRead(c)
    \/ \E c \in Callers : UpdApply(c)
    \/ \E s \in Scrapers : CollectRLock(s)
    \/ \E s \in Scrapers : CollectSend(s)
    \/ \E s \in Scrapers : CollectReturn(s)

AggSpec == AggInit /\ [][AggNext]_vars

---------------------------------------------------------------------------
(* The expiry observer on every shape of payload: a run that watches the   *)
(* "pki" resource 1, whose k-th Success event carries the k-th payload of  *)
(* ObsPayloads, cyclically.                                                *)

ObsPayloads == << "absent", "string", "float", "int" >>

ObsEvent(k) ==
    [Resource |-> 1, Type |-> EventTypeSuccess, Retries |-> 0,
     Secret |-> ObsPayloads[1 + ((k - 1) % Len(ObsPayloads))]]

ObsInit == Init /\ declared = <<1>>

ObsProduce == nProduced < MaxObsEvents /\ Produce(ObsEvent(nProduced + 1))

ObsNext ==
    \/ MainSetup
    \/ MainCheckEmpty
    \/ MainRecv
    \/ ObsProduce
    \/ \E e \in BagToSet(waiting) : TaskLock(e)
    \/ \E e \in BagToSet(running) : TaskBody(e)
    \/ ObserverStep

ObsSpec == ObsInit /\ [][ObsNext]_vars

---------------------------------------------------------------------------
(* The queue-draining metrics collector, metrics.go.  RegisterMetricsCollector *)
(* builds *metrics and starts "go metrics.init()"; init has a value        *)
(* receiver, so the goroutine runs on a copy of the struct: the channels   *)
(* and maps of the copy are those of *metrics, the metricsMutex is a       *)
(* mutex of its own.                                                       *)

(* Line 47, func (m MetricsCollector) init(): the mutex init locks. *)
InitLock == "copy"

(* Line 133, func (m *MetricsCollector) Collect: the mutex Collect locks. *)
CollectLock == "orig"

(* The k-th event sent on resourcesUpdates: one Failure, one Success with  *)
(* a whole-number expiration, then Success events without a usable one.    *)
DrainEvent(k) ==
    [Resource |-> k,
     Type |-> IF k = 1 THEN EventTypeFailure ELSE EventTypeSuccess,
     Retries |-> 0,
     Secret |-> IF k = 2 THEN "int" ELSE IF k = 3 THEN "float"
                ELSE IF k = 4 THEN "string" ELSE "absent"]

(* Lines 139-149: the payloads Collect reports through m.Error. *)
Malformed(payload) == payload # "int"

(* The map Collect is iterating, if any: resourceEvents in the loop of     *)
(* lines 138-154, errorCounters in the loop of lines 161-164.              *)
Iterating ==
    IF collect.pc \in {"events", "sendErr", "sendMetric"} THEN "resourceEvents"
    ELSE IF collect.pc = "counters" THEN "errorCounters"
    ELSE "none"

(* The map the drainer is about to write. *)
Writing ==
    IF drainer.pc # "write" THEN "nothing"
    ELSE IF drainer.kind = "event" THEN "resourceEvents"
    ELSE "errorCounters"

DrainFrame ==
    /\ UNCHANGED coordVars
    /\ UNCHANGED aggVars
    /\ UNCHANGED << col, errors, resourceExpiry >>

(* The watcher's side of resourcesUpdates, a channel of capacity QueueCap. *)
DrainFeed ==
    /\ Running
    /\ nFed < MaxDrainEvents
    /\ CanSend(resourcesUpdates)
    /\ nFed' = nFed + 1
    /\ resourcesUpdates' = Enqueue(resourcesUpdates, DrainEvent(nFed + 1))
    /\ NoExit
    /\ UNCHANGED << resourceEvents, errorQueue, errorCounters, drainer, collect, nScrapes,
                    drainMutex >>
    /\ DrainFrame

(* Lines 50-55: case event := <-m.resourcesUpdates; a Failure is skipped. *)
DrainRecvEvent ==
    /\ Running
    /\ drainer.pc = "select"
    /\ resourcesUpdates # <<>>
    /\ resourcesUpdates' = Tail(resourcesUpdates)
    /\ drainer' = IF Head(resourcesUpdates).Type = EventTypeFailure
                    THEN IdleDrainer
                    ELSE [pc |-> "lock", kind |-> "event",
                          id |-> Head(resourcesUpdates).Resource,
                          payload |-> Head(resourcesUpdates).Secret]
    /\ NoExit
    /\ UNCHANGED << nFed, resourceEvents, errorQueue, errorCounters, collect, nScrapes,
                    drainMutex >>
    /\ DrainFrame

(* Line 63: case err := <-m.errors. *)
DrainRecvError ==
    /\ Running
    /\ drainer.pc = "select"
    /\ errorQueue > 0
    /\ errorQueue' = errorQueue - 1
    /\ drainer' = [pc |-> "lock", kind |-> "error", id |-> 0, payload |-> "absent"]
    /\ NoExit
    /\ UNCHANGED << resourcesUpdates, nFed, resourceEvents, errorCounters, collect, nScrapes,
                    drainMutex >>
    /\ DrainFrame

(* Lines 56 and 64: m.metricsMutex.Lock(), on the mutex of the copy. *)
DrainLock ==
    /\ Running
    /\ drainer.pc = "lock"
    /\ CanLock(drainMutex[InitLock])
    /\ drainMutex' = [drainMutex EXCEPT ![InitLock].w = TRUE]
    /\ drainer' = [drainer EXCEPT !.pc = "write"]
    /\ NoExit
    /\ UNCHANGED << resourcesUpdates, nFed, resourceEvents, errorQueue, errorCounters,
                    collect, nScrapes >>
    /\ DrainFrame

(* Lines 57-58 and 65-66: the map write and Unlock. *)
DrainWrite ==
    /\ Running
    /\ drainer.pc = "write"
    /\ IF drainer.kind = "event"
         THEN /\ resourceEvents' = MapSet(resourceEvents, drainer.id, drainer.payload)
              /\ errorCounters' = errorCounters
         ELSE /\ errorCounters' = MapIncr(errorCounters, "metrics_error")
              /\ resourceEvents' = resourceEvents
    /\ drainMutex' = [drainMutex EXCEPT ![InitLock].w = FALSE]
    /\ drainer' = IdleDrainer
    /\ NoExit
    /\ UNCHANGED << resourcesUpdates, nFed, errorQueue, collect, nScrapes >>
    /\ DrainFrame

(* A map written while it is being iterated with no common lock: the Go    *)
(* run time may detect it and end the process with "fatal error:           *)
(* concurrent map iteration and map write"; otherwise DrainWrite goes on.  *)
DrainRaceCrash ==
    /\ Running
    /\ drainer.pc = "write"
    /\ Writing = Iterating
    /\ Exit(2, "concurrent map iteration and map write")
    /\ UNCHANGED drainVars
    /\ DrainFrame

(* Lines 134-137: Collect takes RLock on the mutex of *metrics. *)
DrainCollectStart ==
    /\ Running
    /\ collect.pc = "idle"
    /\ nScrapes < MaxScrapes
    /\ CanRLock(drainMutex[CollectLock])
    /\ drainMutex' = [drainMutex EXCEPT ![CollectLock].r = @ \cup {"collect"}]
    /\ nScrapes' = nScrapes + 1
    /\ collect' = [pc |-> "events", last |-> 0]
    /\ NoExit
    /\ UNCHANGED << resourcesUpdates, nFed, resourceEvents, errorQueue, errorCounters,
                    drainer >>
    /\ DrainFrame

(* The keys of resourceEvents the range of line 138 has yet to visit; the  *)
(* model visits them by rising id.                                         *)
Unvisited == {k \in DOMAIN resourceEvents : k > collect.last}

(* Lines 138-149: the next stored event, and what Collect does with it. *)
DrainCollectIter ==
    /\ Running
    /\ collect.pc = "events"
    /\ IF Unvisited = {}
         THEN collect' = [collect EXCEPT !.pc = "counters"]
         ELSE LET k == CHOOSE x \in Unvisited : \A y \in Unvisited : x <= y
              IN  collect' = [pc |-> IF Malformed(resourceEvents[k])
                                       THEN "sendErr" ELSE "sendMetric",
                              last |-> k]
    /\ NoExit
    /\ UNCHANGED << resourcesUpdates, nFed, resourceEvents, errorQueue, errorCounters,
                    drainer, nScrapes, drainMutex >>
    /\ DrainFrame

(* Lines 141 and 147: m.Error("metrics_error"), a send on the channel      *)
(* m.errors, of capacity QueueCap, with the read lock held.                *)
DrainCollectError ==
    /\ Running
    /\ collect.pc = "sendErr"
    /\ errorQueue < QueueCap
    /\ errorQueue' = errorQueue + 1
    /\ collect' = [collect EXCEPT !.pc = "events"]
    /\ NoExit
    /\ UNCHANGED << resourcesUpdates, nFed, resourceEvents, errorCounters, drainer,
                    nScrapes, drainMutex >>
    /\ DrainFrame

(* Lines 151-153: the gauge sent on ch; the exporter takes it. *)
DrainCollectSend ==
    /\ Running
    /\ collect.pc = "sendMetric"
    /\ collect' = [collect EXCEPT !.pc = "events"]
    /\ NoExit
    /\ UNCHANGED << resourcesUpdates, nFed, resourceEvents, errorQueue, errorCounters,
                    drainer, nScrapes, drainMutex >>
    /\ DrainFrame

(* Lines 156-165: the two counter maps sent on ch, then the deferred       *)
(* RUnlock.                                                                *)
DrainCollectReturn ==
    /\ Running
    /\ collect.pc = "counters"
    /\ collect' = IdleCollect
    /\ drainMutex' = [drainMutex EXCEPT ![CollectLock].r = @ \ {"collect"}]
    /\ NoExit
    /\ UNCHANGED << resourcesUpdates, nFed, resourceEvents, errorQueue, errorCounters,
                    drainer, nScrapes >>
    /\ DrainFrame

(* The goroutine of init and the call of Collect, each as one process. *)
Drainer == DrainRecvEvent \/ DrainRecvError \/ DrainLock \/ DrainWrite

Collector == DrainCollectIter \/ DrainCollectError \/ DrainCollectSend \/ DrainCollectReturn

DrainInit == Init /\ ~oneShot /\ declared = <<>>

DrainNext ==
    \/ DrainFeed
    \/ DrainRecvEvent
    \/ DrainRecvError
    \/ DrainLock
    \/ DrainWrite
    \/ DrainRaceCrash
    \/ DrainCollectStart
    \/ DrainCollectIter
    \/ DrainCollectError
    \/ DrainCollectSend
    \/ DrainCollectReturn

(* The goroutine of init is scheduled fairly, and so is Collect, whose     *)
(* exporter takes what it sends.                                           *)
DrainSpec ==
    /\ DrainInit
    /\ [][DrainNext]_vars
    /\ WF_vars(Drainer)
    /\ WF_vars(Collector)

---------------------------------------------------------------------------
(* Properties. *)

(* C1: in one-shot mode with a non-empty resource list and no termination  *)
(* signal, a process that has ended has an empty toProcess and exit status *)
(* 1 if some resource exhausted its retry budget, 0 otherwise.             *)
C1_PendingSetConvergence ==
    (oneShot /\ declared # <<>> /\ sigSent = 0 /\ ~Running) =>
        /\ toProcess = <<>>
        /\ exitStatus = (IF exhausted # {} THEN 1 ELSE 0)

(* C2: a goroutine that handles a Failure event of a resource still in     *)
(* toProcess removes the resource and sets failedResource if and only if   *)
(* MaxRetries > 0 and Retries > MaxRetries; otherwise it changes neither.  *)
(* When the removed resource was the last one pending, the process exits   *)
(* with status 1.                                                          *)
C2_RetryBudgetRule ==
    [][ \A e \in BagToSet(running) :
          (TaskBody(e) /\ e.Type = EventTypeFailure /\ e.Resource \in Range(toProcess)) =>
              LET over == /\ ResourceMaxRetries(e.Resource) > 0
                          /\ e.Retries > ResourceMaxRetries(e.Resource)
              IN  /\ over => /\ e.Resource \notin Range(toProcess')
                             /\ Len(toProcess') = Len(toProcess) - 1
                             /\ failedResource'
                  /\ ~over => /\ toProcess' = toProcess
                              /\ failedResource' = failedResource
                  /\ (over /\ Range(toProcess) = {e.Resource}) => exitStatus' = 1
      ]_vars

C2_Witness ==
    /\ declared = <<1>>
    /\ exhausted = {1}
    /\ toProcess = <<>>
    /\ failedResource
    /\ exitStatus = 1

(* C3: in continuous mode only a termination signal ends the process, and  *)
(* toProcess and failedResource are never modified.                        *)
C3_ContinuousNeverExits ==
    ~oneShot =>
        /\ ~Running => exitPath = "signal"
        /\ toProcess = declared
        /\ ~failedResource

(* C4: an exit with status 0 in one-shot mode means every declared         *)
(* resource was removed from toProcess by a Success event; an exit with    *)
(* status 1 means one-shot mode and a resource that exhausted its budget.  *)
C4_ExitStatusMeaning ==
    /\ (oneShot /\ exitStatus = 0) =>
          /\ toProcess = <<>>
          /\ exhausted = {}
          /\ removedBySuccess = Range(declared)
    /\ exitStatus = 1 => (oneShot /\ exhausted # {})

(* C5: a one-shot run with no declared resource never reaches the select   *)
(* loop and never receives an event: main is always able to take its next  *)
(* step until it has exited, and it exits with status 0 by the emptiness   *)
(* test of main.go:93.                                                     *)
C5_EmptyOneShotExits ==
    (oneShot /\ declared = <<>>) =>
        /\ mainpc \in {"init", "watching", "exited"}
        /\ coordReceived = <<>>
        /\ Running => ENABLED (MainSetup \/ MainCheckEmpty)
        /\ ~Running => (exitStatus = 0 /\ exitPath = "empty")

C5_Witness ==
    /\ oneShot
    /\ declared = <<>>
    /\ exitStatus = 0
    /\ exitPath = "empty"

(* C6: in continuous mode no termination signal delivered after            *)
(* signal.Notify is lost.                                                  *)
C6_NoSignalLost == ~oneShot => sigLost = 0

(* The production numbers in a channel, in order. *)
Seqs(q) == [i \in 1..Len(q) |-> q[i].seq]

(* What a listener has taken from its channel so far. *)
Received(c) ==
    CASE c = "updates"       -> coordReceived
      [] c = "expiryUpdates" -> observerReceived
      [] OTHER               -> <<>>

(* C7: on every listener channel, the events already received followed by  *)
(* the events still queued are exactly the events produced, once each and  *)
(* in production order, with the content they were produced with.          *)
C7_FanOutComplete ==
    \A c \in Range(Listeners) :
        /\ Received(c) \o Seqs(chans[c]) = [i \in 1..nProduced |-> i]
        /\ \A i \in 1..Len(chans[c]) : chans[c][i].evt = FanEvent(chans[c][i].seq)

C7_Witness ==
    /\ nProduced >= 3
    /\ Len(coordReceived) = 2
    /\ Len(observerReceived) = 1
    /\ Len(updates) >= 1
    /\ Len(metricUpdates) = nProduced

(* C8: no channel holds more than QueueCap events; while some channel is   *)
(* full the watcher cannot produce; every channel holds the latest events  *)
(* produced, none missing and none overwritten.                            *)
C8_Backpressure ==
    /\ \A c \in Range(Listeners) : Len(chans[c]) <= QueueCap
    /\ (\E c \in Range(Listeners) : Len(chans[c]) = QueueCap) => ~ENABLED FanProduce
    /\ \A c \in Range(Listeners) :
          Seqs(chans[c]) = [i \in 1..Len(chans[c]) |-> nProduced - Len(chans[c]) + i]

C8_Witness ==
    /\ nProduced < MaxFanEvents
    /\ Len(metricUpdates) = QueueCap
    /\ Len(updates) < QueueCap
    /\ Len(expiryUpdates) < Len(updates)
    /\ ~ENABLED FanProduce

(* C9: the watcher is never blocked for good: until the run coordinator    *)
(* and the expiry observer have received all MaxFanEvents events, some     *)
(* step of the system is possible.                                         *)
C9_NoIndefiniteBlocking ==
    \/ Len(coordReceived) = MaxFanEvents /\ Len(observerReceived) = MaxFanEvents
    \/ ENABLED FanNext

(* C10: reportExpiryMetrics never ends the process, and a one-shot run     *)
(* ends with status 0 or 1 only.                                           *)
C10_ObserverNeverTerminates ==
    /\ exitPath # "panic in reportExpiryMetrics"
    /\ (oneShot /\ ~Running) => exitStatus \in {0, 1}

(* The count a map holds for a key: 0 for a key it does not have. *)
CountOf(m, k) == IF k \in DOMAIN m THEN m[k] ELSE 0

(* How many of the events reportExpiryMetrics has received carried the     *)
(* payload p.                                                              *)
ObsReceivedWith(p) ==
    Cardinality({i \in 1..Len(observerReceived) : ObsEvent(observerReceived[i]).Secret = p})

(* C11: the generic-error counters are those of the two reasons            *)
(* "no_expiration_in_resource" and "expiration_not_numeric" only; the      *)
(* first counts the received Success events of the "pki" resource without  *)
(* an expiration, the second those whose expiration is present and not a   *)
(* number (an expiration that is a number but no int64 may count there     *)
(* too); the gauge has an entry for the resource only after an event with  *)
(* a well-formed expiration.                                               *)
C11_MalformedPayloadIsolation ==
    /\ DOMAIN errors \subseteq {"no_expiration_in_resource", "expiration_not_numeric"}
    /\ CountOf(errors, "no_expiration_in_resource") = ObsReceivedWith("absent")
    /\ CountOf(errors, "expiration_not_numeric") >= ObsReceivedWith("string")
    /\ CountOf(errors, "expiration_not_numeric")
          <= ObsReceivedWith("string") + ObsReceivedWith("float")
    /\ DOMAIN resourceExpiry # {} => ObsReceivedWith("int") > 0

CounterFamilies == Range(CollectFamilies) \ {"resourceExpiry"}

(* Every counter key of old is a key of new, with a value not lower. *)
NeverLower(old, new) ==
    \A f \in CounterFamilies :
        \A k \in DOMAIN Field(old, f) :
            /\ k \in DOMAIN Field(new, f)
            /\ Field(new, f)[k] >= Field(old, f)[k]

(* C13: no step of Init, an update or Collect lowers a counter of a        *)
(* collector or removes one of its keys.                                   *)
C13_CounterMonotonicity ==
    [][ /\ NeverLower(AggState("set"), AggState("set")')
        /\ NeverLower(AggState("replaced"), AggState("replaced")') ]_vars

C13_Witness ==
    /\ CountOf(counters["resourceTotals"], 1) = 2
    /\ \E s \in Scrapers :
          /\ scr[s].pc = "done"
          /\ \E i \in 1..Len(scr[s].out) : scr[s].out[i].fam = "resourceTotals"

(* C14: an update between Lock and Unlock has its collector to itself: no  *)
(* other update of that collector is between Lock and Unlock, and no       *)
(* Collect is between RLock and RUnlock.                                   *)
C14_LockDiscipline ==
    \A c \in Callers :
        upd[c].pc \in {"locked", "read"} =>
            /\ \A d \in Callers \ {c} :
                  upd[d].pc \in {"locked", "read"} => upd[d].target # upd[c].target
            /\ upd[c].target = "set" => \A s \in Scrapers : scr[s].pc # "collecting"

C14_Witness ==
    /\ \A s \in Scrapers : scr[s].pc = "collecting" /\ Len(scr[s].out) >= 1
    /\ \E c \in Callers : upd[c].pc = "called" /\ upd[c].target = "set"

(* The families with a value in st, in the order of Collect. *)
EmittedFamilies(st) ==
    SelectSeq(CollectFamilies, LAMBDA f : DOMAIN Field(st, f) # {})

(* C15: from RLock to RUnlock the collector stays as Collect found it;     *)
(* every value Collect sent is the value of that state, and a finished     *)
(* Collect sent every family that had a value in it, once, in order.       *)
C15_SnapshotConsistency ==
    \A s \in Scrapers :
        /\ scr[s].pc = "collecting" => AggState("set") = scr[s].snap
        /\ scr[s].pc \in {"collecting", "done"} =>
              \A i \in 1..Len(scr[s].out) :
                  scr[s].out[i].vals = Field(scr[s].snap, scr[s].out[i].fam)
        /\ scr[s].pc = "done" =>
              [i \in 1..Len(scr[s].out) |-> scr[s].out[i].fam] = EmittedFamilies(scr[s].snap)

C15_Witness ==
    \E s \in Scrapers :
        /\ scr[s].pc = "collecting"
        /\ Len(scr[s].out) >= 2
        /\ DOMAIN scr[s].snap.errors # {}
        /\ \E c \in Callers : upd[c].pc = "called" /\ upd[c].target = "set"

(* C16: once the collector is registered, Describe has sent the descriptor *)
(* of every family Collect emits, none of them nil, and every metric       *)
(* Collect sends carries a descriptor Init constructed.                    *)
C16_DescriptorCompleteness ==
    /\ registered =>
          /\ \A i \in 1..Len(described) : described[i] # "nil"
          /\ \A f \in Range(CollectFamilies) : f \in Range(described)
    /\ \A s \in Scrapers :
          \A i \in 1..Len(scr[s].out) : scr[s].out[i].desc \in InitDescriptors

(* C17: col never points to a collector other than the one the first Init  *)
(* built, and a second call of Init does not return.                       *)
C17_SingleInstance ==
    /\ col # "replaced"
    /\ initCalls >= 2 => (initpc = "assigned" /\ col = "set")

(* C18: an update called while col is nil ends in the panic that ends the  *)
(* process; it never returns.                                              *)
C18_UpdateBeforeInitFatal ==
    [][ \A c \in Callers :
          (upd[c].pc = "called" /\ upd[c].target = "nil" /\ upd'[c] # upd[c]) =>
              /\ upd'[c].pc = "panicked"
              /\ exitStatus' = 2
              /\ AggState("set")' = AggState("set") ]_vars

C18_Witness ==
    \E c \in Callers :
        /\ upd[c].pc = "panicked"
        /\ upd[c].target = "nil"
        /\ exitStatus = 2
        /\ exitPath = "panic in update"

(* C19: a one-shot run never calls metrics.Init: col stays nil, nothing is *)
(* registered and no goroutine serves /metrics.  A continuous run calls it *)
(* once, and has done so when main or the observer receives its first      *)
(* event.                                                                  *)
C19_TelemetryOnlyWhenContinuous ==
    /\ oneShot => (col = "nil" /\ ~registered /\ servers = 0 /\ initCalls = 0)
    /\ ~oneShot =>
          /\ initCalls <= 1
          /\ servers <= 1
          /\ (coordReceived # <<>> \/ observerReceived # <<>>) =>
                (col = "set" /\ registered /\ servers = 1 /\ initCalls = 1)

C19_Witness ==
    /\ ~oneShot
    /\ coordReceived # <<>>
    /\ observerReceived # <<>>
    /\ col = "set"
    /\ servers = 1

(* C20: no update waits for the lock of the collector while a Collect that *)
(* holds it still has values to hand to the exporter.                      *)
C20_CollectNeverHoldsUpUpdates ==
    \A c \in Callers :
        (upd[c].pc = "called" /\ upd[c].target = "set") =>
            \A s \in metricsMutex["set"].r :
                PendingFamilies(AggState("set"), scr[s].idx) = {}

(* C21: while a goroutine is in processResource for one resource, a        *)
(* goroutine that waits with an event of another resource can take         *)
(* toProcessLock and go on.                                                *)
C21_LockNotHeldWhileMaterializing ==
    \A a \in BagToSet(running), b \in BagToSet(waiting) :
        (Running /\ a.Type = EventTypeSuccess /\ b.Resource # a.Resource) =>
            ENABLED TaskLock(b)

(* C22: when the process has ended by one of the exits of main.go:93-139,  *)
(* no goroutine holds toProcessLock.                                       *)
C22_NoLockHeldAtExit ==
    (~Running /\ exitPath \in {"empty", "drained", "signal"}) => ~toProcessLock

(* C23: at most one goroutine is between Lock and Unlock, and it holds     *)
(* toProcessLock; toProcess and failedResource change only in a step of    *)
(* that goroutine; the exit of lines 127-134 is taken in the step that     *)
(* made the last change, on the emptiness of toProcess as that step left   *)
(* it.                                                                     *)
C23_TransitionsExclusive ==
    /\ [](/\ BagCardinality(running) <= 1
          /\ running # EmptyBag => toProcessLock)
    /\ [][ /\ (toProcess' # toProcess \/ failedResource' # failedResource) =>
                 /\ toProcessLock
                 /\ \E e \in BagToSet(running) : TaskBody(e)
           /\ (exitPath # "drained" /\ exitPath' = "drained") =>
                 /\ toProcessLock
                 /\ \E e \in BagToSet(running) : TaskBody(e)
                 /\ toProcess' = <<>>
                 /\ exitStatus' = (IF failedResource' THEN 1 ELSE 0)
         ]_vars

C23_Witness ==
    /\ BagCardinality(running) = 1
    /\ BagCardinality(waiting) = 1
    /\ toProcessLock
    /\ Len(toProcess) < Len(declared)

(* The elements of s, in order, that are in the set keep. *)
Restrict(s, keep) == SelectSeq(s, LAMBDA r : r \in keep)

(* C24: toProcess is the declared list without the resources that left it, *)
(* in order and without duplicates; no resource left it both by a Success  *)
(* and by an exhausted budget; an event of a resource that is no longer in *)
(* toProcess changes neither toProcess nor failedResource.                 *)
C24_LeavesAtMostOnce ==
    /\ [](/\ toProcess = Restrict(declared, Range(declared) \ (removedBySuccess \cup exhausted))
          /\ Cardinality(Range(toProcess)) = Len(toProcess)
          /\ removedBySuccess \cap exhausted = {})
    /\ [][ \A e \in BagToSet(running) :
             (TaskBody(e) /\ e.Resource \notin Range(toProcess)) =>
                 /\ toProcess' = toProcess
                 /\ failedResource' = failedResource
                 /\ removedBySuccess' = removedBySuccess
                 /\ exhausted' = exhausted
         ]_vars

C24_Witness ==
    /\ declared = <<1, 2>>
    /\ toProcess = <<2>>
    /\ handledLate = {1}
    /\ running = EmptyBag
    /\ Running

(* C25: a Failure that exhausts the budget of one resource while another   *)
(* is pending removes that resource alone, does not end the process and    *)
(* releases the lock; the process has status 1 only with toProcess empty.  *)
C25_FailureAffectsOnlyExitStatus ==
    /\ [](exitStatus = 1 => (toProcess = <<>> /\ exhausted # {}))
    /\ [][ \A e \in BagToSet(running) :
             (/\ TaskBody(e)
              /\ e.Type = EventTypeFailure
              /\ ResourceMaxRetries(e.Resource) > 0
              /\ e.Retries > ResourceMaxRetries(e.Resource)
              /\ e.Resource \in Range(toProcess)
              /\ Range(toProcess) # {e.Resource}) =>
                 /\ toProcess' = Restrict(toProcess, Range(toProcess) \ {e.Resource})
                 /\ exitStatus' = NotExited
                 /\ ~toProcessLock'
         ]_vars

C25_Witness ==
    /\ declared = <<1, 2>>
    /\ exhausted = {1}
    /\ removedBySuccess = {2}
    /\ toProcess = <<>>
    /\ exitStatus = 1
    /\ exitPath = "drained"

(* C26: reportExpiryMetrics changes nothing in the collector for a Failure *)
(* event or a Success event of a resource that is not "pki"; for a Success *)
(* event of a "pki" resource with a whole-number expiration it sets the    *)
(* gauge of that resource and changes nothing else.                        *)
C26_ObserverFrame ==
    [][ (ObserverStep /\ expiryUpdates # <<>>) =>
          LET event == Head(expiryUpdates).evt
          IN  /\ (event.Type = EventTypeFailure \/ ResourceKind(event.Resource) # "pki") =>
                    /\ errors' = errors
                    /\ resourceExpiry' = resourceExpiry
                    /\ counters' = counters
              /\ (/\ event.Type = EventTypeSuccess
                  /\ ResourceKind(event.Resource) = "pki"
                  /\ event.Secret = "int") =>
                    /\ event.Resource \in DOMAIN resourceExpiry'
                    /\ \A r \in DOMAIN resourceExpiry \ {event.Resource} :
                          r \in DOMAIN resourceExpiry' /\ resourceExpiry'[r] = resourceExpiry[r]
                    /\ errors' = errors
                    /\ counters' = counters
      ]_vars

(* C27: in one-shot mode a Success event of a pending resource whose       *)
(* processResource returns an error removes the resource all the same,     *)
(* leaves failedResource as it was and produces no event; when the         *)
(* resource was the last and no budget was exhausted, the process exits    *)
(* with status 0.                                                          *)
C27_MaterializationErrorIgnored ==
    [][ \A e \in BagToSet(running) :
          (/\ TaskRun(e, "error")
           /\ oneShot
           /\ e.Type = EventTypeSuccess
           /\ e.Resource \in Range(toProcess)) =>
              /\ toProcess' = Restrict(toProcess, Range(toProcess) \ {e.Resource})
              /\ failedResource' = failedResource
              /\ nProduced' = nProduced
              /\ chans' = chans
              /\ (Range(toProcess) = {e.Resource} /\ ~failedResource) => exitStatus' = 0
      ]_vars

C27_Witness ==
    /\ oneShot
    /\ declared = <<1, 2>>
    /\ processErrors = {1, 2}
    /\ removedBySuccess = {1, 2}
    /\ ~failedResource
    /\ exitStatus = 0
    /\ exitPath = "drained"

(* C28: options.resources.items stays as configured, and toProcess is the  *)
(* configured list without the resources removed, none other dropped and   *)
(* none twice.                                                             *)
C28_DeclaredListUnchanged ==
    /\ items = declared
    /\ toProcess = Restrict(declared, Range(declared) \ (removedBySuccess \cup exhausted))

(* C29: while the goroutine of init is between Lock and Unlock about to    *)
(* write a map, Collect is not between RLock and RUnlock iterating that    *)
(* map.                                                                    *)
C29_DrainAndCollectExclusive ==
    (drainer.pc = "write" /\ drainMutex[InitLock].w) => Writing # Iterating

(* C30: a Collect that has started returns and releases its read lock.     *)
C30_CollectTerminates ==
    (collect.pc # "idle") ~> (collect.pc = "idle" /\ drainMutex[CollectLock].r = {})

====
